---- MODULE Spec2Model ----
(***************************************************************************)
(* Batch sample drivers of the WGSAnalysis repository:                     *)
(*   snippy_snakemake/snippy_analysis.py  (SnippyAnalysis, get_user_inputs)*)
(*   spades_analysis/spades_analysis.py   (SpadesAnalysis, get_user_inputs)*)
(* The file system below the root directory, the external tool and the     *)
(* interactive user are the environment; the drivers' control flow is the  *)
(* program.                                                                *)
(***************************************************************************)
EXTENDS Integers, Sequences, FiniteSets, TLC

\* ------------------------------------------------------------------ bounds
\* number of entries the root directory tree may hold
MaxEntries == 2
\* number of times a driver is run against the same root directory
MaxRuns == 2
\* number of answers the user types at the prompts of one get_user_inputs call
MaxPrompts == 5
\* number of direct decompress_fastq calls on one sample
MaxCalls == 2

\* --------------------------------------------------------------- constants
\* self.strains, in the order of the list
strains == <<"Acinetobacterbaumannii", "Pseudomonasaeruginosa",
             "Staphylococcusaureus", "Klebsiellapneumoniae">>
\* cpu_cores default of get_user_inputs
DefaultCpuCores == 16

Drivers == {"snippy", "spades"}

VARIABLES
  driver,         \* which script runs
  pc,             \* position of the running driver
  run,            \* how many runs have been started against this root
  rootExists,     \* os.path.exists(base_path / base_input_dir)
  refExists,      \* os.path.exists(ref_genome_path)
  outputInRoot,   \* output_base_dir is the same directory as base_path
  fs,             \* the entries of the root directory tree
  outdirs,        \* output directories that exist
  discovered,     \* get_samples has been called in this run
  samples,        \* the list get_samples returned
  idx,            \* position of the for loop in samples (1-based)
  r1_file,        \* R1 path resolved for the current sample
  r2_file,        \* R2 path resolved for the current sample
  success_count,
  failed_count,
  calls,          \* analysis-tool invocations of this run, in order
  probes,         \* version probes of this run
  writes,         \* fastq files opened for writing in this run / call
  gunzips,        \* gzip streams decompressed in this run / call
  last,           \* what the last step of the loop did
  summary,        \* the summary block, once logged
  prev,           \* what the previous run left in the log
  dlog,           \* direct decompress_fastq calls made on a sample
  cfg,            \* get_user_inputs: values accepted so far
  typed,          \* get_user_inputs: the last line read at each prompt, stripped
  asked,          \* get_user_inputs: how often each prompt was shown
  paths           \* get_user_inputs: paths that exist

vars == <<driver, pc, run, rootExists, refExists, outputInRoot, fs, outdirs,
          discovered, samples, idx, r1_file, r2_file, success_count,
          failed_count, calls, probes, writes, gunzips, last, summary, prev,
          dlog, cfg, typed, asked, paths>>

runVars == <<pc, discovered, samples, idx, r1_file, r2_file, success_count,
             failed_count, calls, probes, writes, gunzips, last, summary>>
inputVars == <<dlog, cfg, typed, asked, paths>>
envVars == <<driver, rootExists, refExists, outputInRoot>>

\* ------------------------------------------------------------ file system
Entries == 1..MaxEntries

\* content of a .fastq.gz file: none, a gzip stream of the reads "A", or
\* bytes gzip cannot read
GzContents == {"absent", "gzA", "bad"}
\* content of a .fastq file: none, the reads "A", other bytes "B", or the
\* empty file a failed decompression leaves behind
FqContents == {"absent", "A", "B", "empty"}

\* gzip.open(...).read(): the stream's data, or the exception
Gunzip(c) == IF c = "gzA" THEN [ok |-> TRUE, data |-> "A"]
                          ELSE [ok |-> FALSE, data |-> "empty"]

NoEntry == [present |-> FALSE, parent |-> "-", isdir |-> FALSE,
            prefixed |-> FALSE, illumina |-> FALSE, stem |-> "x",
            r1us |-> TRUE, r1gz |-> "absent", r2gz |-> "absent",
            r1fq |-> "absent", r2fq |-> "absent"]

\* a directory entry: parent is the directory under the root that holds it
\* (Snippy layout; "." for the SPAdes layout, where it lies in the root),
\* prefixed says its name starts with MCR_CVU_, illumina that it holds an
\* ILLUMINA_DATA directory, stem is the sample prefix of its read files and
\* r1us says the R1 .gz file is named <stem>_R1_trimmed.fastq.gz (with the
\* underscore) and not <stem>R1_trimmed.fastq.gz
Dir(parent, prefixed, illumina, stem, r1us, r1gz, r2gz, r1fq, r2fq) ==
  [present |-> TRUE, parent |-> parent, isdir |-> TRUE, prefixed |-> prefixed,
   illumina |-> illumina, stem |-> stem, r1us |-> r1us, r1gz |-> r1gz,
   r2gz |-> r2gz, r1fq |-> r1fq, r2fq |-> r2fq]

PlainFile(parent, prefixed) ==
  [NoEntry EXCEPT !.present = TRUE, !.parent = parent, !.prefixed = prefixed]

\* ------------------------------------------------------ read-file names
\* a file name in an ILLUMINA_DATA directory:
\*   <stem><tail>[_]R<read>_trimmed.fastq[.gz]
\* tail is "" for the files the tree holds; get_samples can build a sample
\* name that is a whole file name (tail "R1_trimmed.fastq.gz")
FileName(stem, tail, us, read, gz) ==
  [stem |-> stem, tail |-> tail, us |-> us, read |-> read, gz |-> gz]

\* content of file n of entry e's ILLUMINA_DATA directory ("absent": no file)
ContentIn(f, e, n) ==
  LET ent == f[e] IN
  IF ~(ent.present /\ ent.isdir /\ ent.illumina) \/ n.stem # ent.stem
     \/ n.tail # ""
  THEN "absent"
  ELSE IF n.gz /\ n.read = 1 /\ n.us = ent.r1us THEN ent.r1gz
  ELSE IF n.gz /\ n.read = 2 /\ n.us THEN ent.r2gz
  ELSE IF ~n.gz /\ n.read = 1 /\ n.us THEN ent.r1fq
  ELSE IF ~n.gz /\ n.read = 2 /\ n.us THEN ent.r2fq
  ELSE "absent"

Content(e, n) == ContentIn(fs, e, n)

ExistsIn(f, e, n) == ContentIn(f, e, n) # "absent"
Exists(e, n) == ExistsIn(fs, e, n)

\* a path below the root: file n of entry e's ILLUMINA_DATA directory
Path(e, n) == [e |-> e, n |-> n]
NoPath == Path(0, FileName("-", "", FALSE, 0, FALSE))

\* open(path, 'wb') followed by writing c: the tree holds only the .fastq
\* files named <stem>_R<read>_trimmed.fastq
WriteFile(f, e, n, c) ==
  IF n.read = 1 THEN [f EXCEPT ![e].r1fq = c] ELSE [f EXCEPT ![e].r2fq = c]

\* f.endswith("R1_trimmed.fastq.gz") over os.listdir(input_dir)
R1GzFiles(e) ==
  {n \in {FileName(fs[e].stem, "", us, 1, TRUE) : us \in BOOLEAN} : Exists(e, n)}

\* r1_file.replace("_R1_trimmed.fastq.gz", "_R2_trimmed.fastq.gz"): a name
\* without the underscore holds no occurrence and comes back unchanged
ReplaceR1ByR2(n) == IF n.us THEN [n EXCEPT !.read = 2] ELSE n

\* r1_file.replace("_R1_trimmed.fastq.gz", ""): the sample name
SampleName(n) ==
  IF n.us THEN [stem |-> n.stem, tail |-> ""]
          ELSE [stem |-> n.stem, tail |-> "R1_trimmed.fastq.gz"]

\* os.path.join(base_input_dir, f"{sample_path}_R<read>_trimmed.fastq[.gz]")
ReadPath(sp, read, gz) == FileName(sp.name.stem, sp.name.tail, TRUE, read, gz)

\* ------------------------------------------------------- sample discovery
\* an item of a strain directory: entry e itself (sfx 0) or the output
\* directory <item>_mysnps made for it (sfx counts the appended suffixes)
Item(e, k) == [e |-> e, sfx |-> k]

AllItems ==
  [i \in 1..(MaxEntries * (MaxRuns + 1)) |->
     Item(((i - 1) \div (MaxRuns + 1)) + 1, (i - 1) % (MaxRuns + 1))]

\* os.path.join(self.output_base_dir, strain, f"{sample}_mysnps")
SnippyOutDir(strain, item) ==
  [strain |-> strain, item |-> Item(item.e, item.sfx + 1)]

\* os.path.join(self.base_output_dir, f"{os.path.basename(sample_path)}_assembly")
SpadesOutDir(sp) == [name |-> sp.name]

\* item is listed by os.listdir(strain_path)
ListedIn(strain, item) ==
  IF item.sfx = 0
  THEN fs[item.e].present /\ fs[item.e].parent = strain
  ELSE outputInRoot /\ [strain |-> strain, item |-> item] \in outdirs

ItemIsDir(item) == IF item.sfx = 0 THEN fs[item.e].isdir ELSE TRUE
ItemPrefixed(item) == fs[item.e].prefixed

StrainPathExists(strain) == \E i \in DOMAIN AllItems : ListedIn(strain, AllItems[i])

\* SnippyAnalysis.get_samples, the inner loop for one strain
SnippySamplesOf(strain) ==
  LET Keep(item) == /\ ListedIn(strain, item)
                    /\ ItemIsDir(item) /\ ItemPrefixed(item)
      kept == SelectSeq(AllItems, Keep)
  IN [i \in DOMAIN kept |-> [strain |-> strain, item |-> kept[i]]]

RECURSIVE SnippySamplesFrom(_)
SnippySamplesFrom(k) ==
  IF k > Len(strains) THEN <<>>
  ELSE (IF StrainPathExists(strains[k]) THEN SnippySamplesOf(strains[k])
                                        ELSE <<>>)
       \o SnippySamplesFrom(k + 1)

\* SnippyAnalysis.get_samples
snippy_get_samples == IF ~rootExists THEN <<>> ELSE SnippySamplesFrom(1)

\* the loop body without its os.path.exists(r2_path) test
SpadesSamplesOf_NoR2Check(e) ==
  IF ~(fs[e].present /\ fs[e].isdir) THEN <<>>
  ELSE IF ~fs[e].illumina THEN <<>>
  ELSE LET r1s == R1GzFiles(e) IN
       IF r1s = {} THEN <<>>
       ELSE LET r1 == CHOOSE n \in r1s : TRUE IN
            <<[dir |-> e, name |-> SampleName(r1)]>>

\* SpadesAnalysis.get_samples, the body of the loop for one directory
SpadesSamplesOf(e) ==
  IF ~(fs[e].present /\ fs[e].isdir) THEN <<>>
  ELSE IF ~fs[e].illumina THEN <<>>
  ELSE LET r1s == R1GzFiles(e) IN
       IF r1s = {} THEN <<>>
       ELSE LET r1 == CHOOSE n \in r1s : TRUE IN
            IF Exists(e, ReplaceR1ByR2(r1))
            THEN <<[dir |-> e, name |-> SampleName(r1)]>>
            ELSE <<>>

RECURSIVE SpadesSamplesFrom(_)
SpadesSamplesFrom(e) ==
  IF e > MaxEntries THEN <<>>
  ELSE SpadesSamplesOf(e) \o SpadesSamplesFrom(e + 1)

\* SpadesAnalysis.get_samples
spades_get_samples == IF ~rootExists THEN <<>> ELSE SpadesSamplesFrom(1)

\* discovery with a skip-if-already-done check: a sample whose output
\* directory exists is left out
get_samples_SkipDone ==
  LET all == IF driver = "snippy" THEN snippy_get_samples ELSE spades_get_samples
      Todo(sample) ==
        IF driver = "snippy"
        THEN SnippyOutDir(sample.strain, sample.item) \notin outdirs
        ELSE SpadesOutDir(sample) \notin outdirs
  IN SelectSeq(all, Todo)

get_samples == IF driver = "snippy" THEN snippy_get_samples
                                    ELSE spades_get_samples

\* ------------------------------------------------------ external tool
\* what subprocess.run(..., check=True) can do: return (exit status 0),
\* raise CalledProcessError (non-zero exit status), or raise
\* FileNotFoundError (no such binary)
ToolOutcomes == {"exit0", "nonzero", "notfound"}

\* ------------------------------------------------------ initial states
SnippyParents == {strains[1], strains[3]}

\* the entries a Snippy tree is drawn from: in a supported strain directory,
\* a plain file, a directory without the MCR_CVU_ prefix, a sample directory
\* without ILLUMINA_DATA, with one of the two .fastq files missing, with only
\* the compressed reads, with both .fastq files; and a sample directory in a
\* directory that is no supported strain
SnippyEntries ==
  {NoEntry}
  \cup {PlainFile(strains[1], TRUE),
        Dir(strains[1], FALSE, TRUE, "x", TRUE, "absent", "absent", "A", "A")}
  \cup {Dir(p, TRUE, FALSE, "x", TRUE, "absent", "absent", "absent", "absent") : p \in SnippyParents}
  \cup {Dir(p, TRUE, TRUE, "x", TRUE, "absent", "absent", "A", "absent") : p \in SnippyParents}
  \cup {Dir(p, TRUE, TRUE, "x", TRUE, "absent", "absent", "absent", "A") : p \in SnippyParents}
  \cup {Dir(p, TRUE, TRUE, "x", TRUE, "gzA", "gzA", "absent", "absent") : p \in SnippyParents}
  \cup {Dir(p, TRUE, TRUE, "x", TRUE, "absent", "absent", "A", "A") : p \in SnippyParents}
  \cup {Dir("Other", TRUE, TRUE, "x", TRUE, "absent", "absent", "A", "A")}

Stems == {"x", "y"}

\* the entries a SPAdes tree is drawn from: a plain file, a directory without
\* ILLUMINA_DATA, and directories whose ILLUMINA_DATA holds: both .gz files;
\* only R1.gz; only R2.gz; both .gz and both .fastq; both .gz and one stale
\* .fastq; an unreadable R1.gz or R2.gz; an R1.gz named without the
\* underscore before R1
SpadesEntries ==
  {NoEntry, PlainFile(".", FALSE),
   Dir(".", FALSE, FALSE, "x", TRUE, "absent", "absent", "absent", "absent")}
  \cup {Dir(".", FALSE, TRUE, st, TRUE, "gzA", "gzA", "absent", "absent") : st \in Stems}
  \cup {Dir(".", FALSE, TRUE, st, TRUE, "gzA", "absent", "absent", "absent") : st \in Stems}
  \cup {Dir(".", FALSE, TRUE, "x", TRUE, "absent", "gzA", "absent", "absent"),
        Dir(".", FALSE, TRUE, "x", TRUE, "gzA", "gzA", "A", "A"),
        Dir(".", FALSE, TRUE, "x", TRUE, "gzA", "gzA", "B", "absent"),
        Dir(".", FALSE, TRUE, "x", TRUE, "gzA", "gzA", "absent", "B"),
        Dir(".", FALSE, TRUE, "x", TRUE, "bad", "gzA", "absent", "absent"),
        Dir(".", FALSE, TRUE, "x", TRUE, "gzA", "bad", "absent", "absent"),
        Dir(".", FALSE, TRUE, "x", FALSE, "gzA", "gzA", "absent", "absent")}

NoLast == [step |-> "none", sample |-> 0, raised |-> FALSE,
           outcome |-> "none", contigs |-> FALSE, returned |-> FALSE]
NoSummary == [logged |-> FALSE, total |-> 0, success |-> 0, failed |-> 0]
NoPrev == [samples |-> <<>>, calls |-> <<>>]
NoCfg == [root |-> "", out |-> "", ref |-> "", cpu |-> 0]
NoneAsked == [root |-> 0, out |-> 0, ref |-> 0, cpu |-> 0]
NoneTyped == [root |-> "", out |-> "", ref |-> "", cpu |-> ""]

RunInit ==
  /\ discovered = FALSE /\ samples = <<>> /\ idx = 0
  /\ r1_file = NoPath /\ r2_file = NoPath
  /\ success_count = 0 /\ failed_count = 0
  /\ calls = <<>> /\ probes = <<>> /\ writes = {} /\ gunzips = {}
  /\ last = NoLast /\ summary = NoSummary

InputsIdle ==
  /\ dlog = <<>> /\ cfg = NoCfg /\ typed = NoneTyped /\ asked = NoneAsked
  /\ paths = {}

\* a driver object is about to be constructed on a tree
Init ==
  /\ driver \in Drivers
  /\ rootExists \in BOOLEAN
  /\ refExists \in (IF driver = "snippy" THEN BOOLEAN ELSE {FALSE})
  /\ outputInRoot \in BOOLEAN
  /\ fs \in [Entries -> IF ~rootExists THEN {NoEntry}
                        ELSE IF driver = "snippy" THEN SnippyEntries
                        ELSE SpadesEntries]
  /\ outdirs = {}
  /\ pc = "new" /\ run = 1 /\ prev = NoPrev
  /\ RunInit /\ InputsIdle

\* ------------------------------------------------------------ the drivers
\* __init__: os.makedirs(output dir, exist_ok=True)
Construct ==
  /\ pc = "new"
  /\ pc' = "init"
  /\ rootExists' = (rootExists \/ outputInRoot)
  /\ UNCHANGED <<driver, run, refExists, outputInRoot, fs, outdirs, discovered,
                 samples, idx, r1_file, r2_file, success_count, failed_count,
                 calls, probes, writes, gunzips, last, summary, prev>>
  /\ UNCHANGED inputVars

\* validate_inputs whose probe is run without check=True and inside no try:
\* a failed probe goes unnoticed
validate_inputs_ProbeIgnored(probe) ==
  IF ~rootExists THEN [ok |-> FALSE, probed |-> FALSE]
  ELSE IF driver = "snippy" /\ ~refExists THEN [ok |-> FALSE, probed |-> FALSE]
  ELSE [ok |-> TRUE, probed |-> TRUE]

\* validate_inputs, given what the version probe would do: the value it
\* returns and whether the probe was run
validate_inputs(probe) ==
  IF ~rootExists THEN [ok |-> FALSE, probed |-> FALSE]
  ELSE IF driver = "snippy" /\ ~refExists THEN [ok |-> FALSE, probed |-> FALSE]
  ELSE [ok |-> probe = "exit0", probed |-> TRUE]

\* run_analysis / run_assembly up to the validation branch
Validate ==
  /\ pc = "init"
  /\ \E probe \in ToolOutcomes :
       LET v == validate_inputs(probe) IN
       /\ probes' = IF v.probed THEN Append(probes, probe) ELSE probes
       /\ pc' = IF v.ok THEN "discover" ELSE "aborted"
  /\ UNCHANGED <<run, fs, outdirs, discovered, samples, idx, r1_file, r2_file,
                 success_count, failed_count, calls, writes, gunzips, last,
                 summary, prev>>
  /\ UNCHANGED envVars /\ UNCHANGED inputVars

\* the same without the early return on an empty list: the loop runs zero
\* times and the summary follows
Discover_NoEarlyReturn ==
  /\ pc = "discover"
  /\ discovered' = TRUE
  /\ samples' = get_samples
  /\ pc' = (IF get_samples = <<>> THEN "summary" ELSE "resolve")
  /\ idx' = 1
  /\ success_count' = 0 /\ failed_count' = 0
  /\ UNCHANGED <<run, fs, outdirs, r1_file, r2_file, calls, probes, writes,
                 gunzips, last, summary, prev>>
  /\ UNCHANGED envVars /\ UNCHANGED inputVars

\* samples = self.get_samples(); if not samples: return; counters set to 0
Discover ==
  /\ pc = "discover"
  /\ discovered' = TRUE
  /\ samples' = get_samples
  /\ IF get_samples = <<>>
     THEN pc' = "nosamples" /\ idx' = idx
     ELSE pc' = "resolve" /\ idx' = 1
  /\ success_count' = 0 /\ failed_count' = 0
  /\ UNCHANGED <<run, fs, outdirs, r1_file, r2_file, calls, probes, writes,
                 gunzips, last, summary, prev>>
  /\ UNCHANGED envVars /\ UNCHANGED inputVars

\* SnippyAnalysis.get_fastq_files: the two paths, or the FileNotFoundError
get_fastq_files(sample) ==
  LET e == sample.item.e
      r1 == FileName(fs[e].stem, "", TRUE, 1, FALSE)
      r2 == FileName(fs[e].stem, "", TRUE, 2, FALSE)
      sample_path_exists == sample.item.sfx = 0 /\ fs[e].illumina
  IN IF ~sample_path_exists
     THEN [ok |-> FALSE, r1 |-> NoPath, r2 |-> NoPath]
     ELSE IF ~Exists(e, r1) \/ ~Exists(e, r2)
     THEN [ok |-> FALSE, r1 |-> NoPath, r2 |-> NoPath]
     ELSE [ok |-> TRUE, r1 |-> Path(e, r1), r2 |-> Path(e, r2)]

\* one "Decompress R<n>" block of decompress_fastq on tree f: ok is FALSE when
\* the block raises (no .gz file, or gzip cannot read it: by then the target
\* has been opened for writing and is left empty)
DecompressOne(f, e, gz, fq) ==
  IF ExistsIn(f, e, gz)
  THEN LET g == Gunzip(ContentIn(f, e, gz)) IN
       [ok |-> g.ok, fs |-> WriteFile(f, e, fq, g.data),
        writes |-> {Path(e, fq)}, gunzips |-> {Path(e, gz)}]
  ELSE [ok |-> FALSE, fs |-> f, writes |-> {}, gunzips |-> {}]

\* decompress_fastq without its "already decompressed" test
decompress_fastq_NoSkip(f, sp) ==
  LET e == sp.dir
      ret == [r1 |-> Path(e, ReadPath(sp, 1, FALSE)),
              r2 |-> Path(e, ReadPath(sp, 2, FALSE))]
      a == DecompressOne(f, e, ReadPath(sp, 1, TRUE), ReadPath(sp, 1, FALSE))
  IN IF ~a.ok THEN a @@ ret
     ELSE LET b == DecompressOne(a.fs, e, ReadPath(sp, 2, TRUE), ReadPath(sp, 2, FALSE)) IN
          [ok |-> b.ok, fs |-> b.fs, writes |-> a.writes \cup b.writes,
           gunzips |-> a.gunzips \cup b.gunzips] @@ ret

\* SpadesAnalysis.decompress_fastq on tree f: whether it returns (ok) or
\* raises, the tree it leaves, the files it opened for writing, the gzip
\* streams it read, and the two paths it returns
decompress_fastq(f, sp) ==
  LET e == sp.dir
      r1_gz == ReadPath(sp, 1, TRUE)
      r2_gz == ReadPath(sp, 2, TRUE)
      r1_fastq == ReadPath(sp, 1, FALSE)
      r2_fastq == ReadPath(sp, 2, FALSE)
      ret == [r1 |-> Path(e, r1_fastq), r2 |-> Path(e, r2_fastq)]
  IN IF ExistsIn(f, e, r1_fastq) /\ ExistsIn(f, e, r2_fastq)
     THEN [ok |-> TRUE, fs |-> f, writes |-> {}, gunzips |-> {}] @@ ret
     ELSE LET a == DecompressOne(f, e, r1_gz, r1_fastq) IN
          IF ~a.ok THEN a @@ ret
          ELSE LET b == DecompressOne(a.fs, e, r2_gz, r2_fastq) IN
               [ok |-> b.ok, fs |-> b.fs, writes |-> a.writes \cup b.writes,
                gunzips |-> a.gunzips \cup b.gunzips] @@ ret

\* the loop's step to the next sample, or past the last one
Advance == 
  /\ idx' = idx + 1
  /\ pc' = IF idx + 1 > Len(samples) THEN "summary" ELSE "resolve"

\* the except branch without its failed_count += 1
CountException_NoCount ==
  /\ UNCHANGED <<failed_count, success_count>>
  /\ last' = [NoLast EXCEPT !.step = "resolve", !.sample = idx, !.raised = TRUE]
  /\ r1_file' = NoPath /\ r2_file' = NoPath
  /\ Advance

\* the except branch re-raising: the loop is left and the run dies
CountException_Abort ==
  /\ failed_count' = failed_count + 1
  /\ success_count' = success_count
  /\ last' = [NoLast EXCEPT !.step = "resolve", !.sample = idx, !.raised = TRUE]
  /\ r1_file' = NoPath /\ r2_file' = NoPath
  /\ idx' = idx /\ pc' = "crashed"

\* the except branch of the loop: failed_count += 1
CountException ==
  /\ failed_count' = failed_count + 1
  /\ success_count' = success_count
  /\ last' = [NoLast EXCEPT !.step = "resolve", !.sample = idx, !.raised = TRUE]
  /\ r1_file' = NoPath /\ r2_file' = NoPath
  /\ Advance

\* the inputs of the current sample are resolved: on to the invocation
Resolved(r1, r2) ==
  /\ r1_file' = r1 /\ r2_file' = r2
  /\ last' = [NoLast EXCEPT !.step = "resolve", !.sample = idx]
  /\ pc' = "invoke"
  /\ UNCHANGED <<idx, success_count, failed_count>>

\* Snippy loop body, first statement: R1_file, R2_file = get_fastq_files(...)
SnippyResolve ==
  /\ pc = "resolve" /\ driver = "snippy"
  /\ LET r == get_fastq_files(samples[idx]) IN
     IF r.ok THEN Resolved(r.r1, r.r2) ELSE CountException
  /\ UNCHANGED <<run, fs, outdirs, discovered, samples, calls, probes, writes,
                 gunzips, summary, prev>>
  /\ UNCHANGED envVars /\ UNCHANGED inputVars

\* SPAdes loop body, first statement: r1_file, r2_file = decompress_fastq(...)
SpadesResolve ==
  /\ pc = "resolve" /\ driver = "spades"
  /\ LET r == decompress_fastq(fs, samples[idx]) IN
     /\ fs' = r.fs
     /\ writes' = writes \cup r.writes
     /\ gunzips' = gunzips \cup r.gunzips
     /\ IF r.ok THEN Resolved(r.r1, r.r2) ELSE CountException
  /\ UNCHANGED <<run, outdirs, discovered, samples, calls, probes, summary, prev>>
  /\ UNCHANGED envVars /\ UNCHANGED inputVars

\* the output directory run_snippy / run_spades derives for a sample
OutDirOf(sample) ==
  IF driver = "snippy" THEN SnippyOutDir(sample.strain, sample.item)
                       ELSE SpadesOutDir(sample)

\* the invocation started without waiting for it (a Popen that is never
\* waited on): the loop goes on to the next sample while the tool runs
Invoke_NoWait ==
  /\ pc = "invoke"
  /\ outdirs' = IF driver = "snippy" THEN outdirs \cup {OutDirOf(samples[idx])}
                                     ELSE outdirs
  /\ calls' = Append(calls, [sample |-> samples[idx], index |-> idx,
                             r1 |-> r1_file, r2 |-> r2_file,
                             outdir |-> OutDirOf(samples[idx]),
                             returned |-> "running"])
  /\ Advance
  /\ UNCHANGED <<run, fs, discovered, samples, r1_file, r2_file,
                 success_count, failed_count, probes, writes, gunzips, last,
                 summary, prev>>
  /\ UNCHANGED envVars /\ UNCHANGED inputVars

\* run_snippy / run_spades up to subprocess.run: run_snippy makes the output
\* directory itself, run_spades leaves that to spades.py
Invoke ==
  /\ pc = "invoke"
  /\ outdirs' = IF driver = "snippy" THEN outdirs \cup {OutDirOf(samples[idx])}
                                     ELSE outdirs
  /\ calls' = Append(calls, [sample |-> samples[idx], index |-> idx,
                             r1 |-> r1_file, r2 |-> r2_file,
                             outdir |-> OutDirOf(samples[idx]),
                             returned |-> "running"])
  /\ pc' = "running"
  /\ UNCHANGED <<run, fs, discovered, samples, idx, r1_file, r2_file,
                 success_count, failed_count, probes, writes, gunzips, last,
                 summary, prev>>
  /\ UNCHANGED envVars /\ UNCHANGED inputVars

\* subprocess.run without check=True: only a missing binary is a failure
ToolResult_NoCheck(outcome) == outcome # "notfound"

\* what run_snippy / run_spades returns for an outcome of subprocess.run
ToolResult(outcome) == outcome = "exit0"

\* the same with a retry: a failed invocation is counted and the sample is
\* invoked again
CountResult_Retry(ok) ==
  /\ success_count' = IF ok THEN success_count + 1 ELSE success_count
  /\ failed_count' = IF ok THEN failed_count ELSE failed_count + 1
  /\ IF ok THEN Advance ELSE idx' = idx /\ pc' = "invoke"

\* the loop's if / else on that value, and on to the next sample
CountResult(ok) ==
  /\ success_count' = IF ok THEN success_count + 1 ELSE success_count
  /\ failed_count' = IF ok THEN failed_count ELSE failed_count + 1
  /\ Advance

\* subprocess.run returns or raises; run_snippy / run_spades returns and the
\* loop counts.  spades.py that ran has made its output directory when it
\* exits 0 and may have when it fails; contigs says whether it left a
\* contigs.fasta
ToolReturns ==
  /\ pc = "running"
  /\ \E outcome \in ToolOutcomes, made \in BOOLEAN, contigs \in BOOLEAN :
       LET ok == ToolResult(outcome) IN
       /\ outcome = "exit0" => made
       /\ outcome = "notfound" => ~made
       /\ driver = "snippy" => made = (outcome # "notfound")
       /\ contigs => (driver = "spades" /\ outcome = "exit0")
       /\ outdirs' = IF driver = "spades" /\ made
                     THEN outdirs \cup {OutDirOf(samples[idx])} ELSE outdirs
       /\ calls' = [calls EXCEPT ![Len(calls)].returned =
                                    IF ok THEN "True" ELSE "False"]
       /\ CountResult(ok)
       /\ last' = [step |-> "tool", sample |-> idx, raised |-> FALSE,
                   outcome |-> outcome, contigs |-> contigs, returned |-> ok]
  /\ r1_file' = NoPath /\ r2_file' = NoPath
  /\ UNCHANGED <<run, fs, discovered, samples, probes, writes, gunzips,
                 summary, prev>>
  /\ UNCHANGED envVars /\ UNCHANGED inputVars

\* the "Output summary" block after the loop
Summary ==
  /\ pc = "summary"
  /\ summary' = [logged |-> TRUE, total |-> Len(samples),
                 success |-> success_count, failed |-> failed_count]
  /\ pc' = "done"
  /\ UNCHANGED <<run, fs, outdirs, discovered, samples, idx, r1_file, r2_file,
                 success_count, failed_count, calls, probes, writes, gunzips,
                 last, prev>>
  /\ UNCHANGED envVars /\ UNCHANGED inputVars

Terminated == pc \in {"aborted", "nosamples", "done"}

\* the script is started again on the same root directory: a new process,
\* whose only inheritance is the file system
Rerun ==
  /\ Terminated /\ run < MaxRuns
  /\ run' = run + 1
  /\ prev' = [samples |-> samples, calls |-> calls]
  /\ pc' = "new"
  /\ discovered' = FALSE /\ samples' = <<>> /\ idx' = 0
  /\ r1_file' = NoPath /\ r2_file' = NoPath
  /\ success_count' = 0 /\ failed_count' = 0
  /\ calls' = <<>> /\ probes' = <<>> /\ writes' = {} /\ gunzips' = {}
  /\ last' = NoLast /\ summary' = NoSummary
  /\ UNCHANGED <<fs, outdirs>>
  /\ UNCHANGED envVars /\ UNCHANGED inputVars

Next ==
  \/ Construct
  \/ Validate
  \/ Discover
  \/ SnippyResolve
  \/ SpadesResolve
  \/ Invoke
  \/ ToolReturns
  \/ Summary
  \/ Rerun

Spec == Init /\ [][Next]_vars

\* ------------------------------------------- decompress_fastq called directly
\* the sample path <dir>/ILLUMINA_DATA/x of entry 1
DirectSample == [dir |-> 1, name |-> [stem |-> "x", tail |-> ""]]

\* one sample directory holding any combination of the two .gz files
\* (absent, readable, unreadable) and of the two .fastq targets
InitDecompress ==
  /\ driver = "spades"
  /\ rootExists = TRUE /\ refExists = FALSE /\ outputInRoot = FALSE
  /\ \E g1 \in GzContents, g2 \in GzContents, f1 \in FqContents, f2 \in FqContents :
       fs = [e \in Entries |->
               IF e = 1 THEN Dir(".", FALSE, TRUE, "x", TRUE, g1, g2, f1, f2)
                        ELSE NoEntry]
  /\ outdirs = {}
  /\ pc = "direct" /\ run = 1 /\ prev = NoPrev
  /\ discovered = FALSE /\ samples = <<DirectSample>> /\ idx = 1
  /\ r1_file = NoPath /\ r2_file = NoPath
  /\ success_count = 0 /\ failed_count = 0
  /\ calls = <<>> /\ probes = <<>> /\ writes = {} /\ gunzips = {}
  /\ last = NoLast /\ summary = NoSummary
  /\ InputsIdle

\* analysis.decompress_fastq(sample_path), called on the tree as it is;
\* dlog keeps, per call, the tree before it and what the call did
CallDecompress ==
  /\ pc = "direct" /\ Len(dlog) < MaxCalls
  /\ LET r == decompress_fastq(fs, samples[1]) IN
     /\ fs' = r.fs
     /\ writes' = r.writes
     /\ gunzips' = r.gunzips
     /\ r1_file' = (IF r.ok THEN r.r1 ELSE NoPath)
     /\ r2_file' = (IF r.ok THEN r.r2 ELSE NoPath)
     /\ dlog' = Append(dlog, [before |-> fs, ok |-> r.ok, writes |-> r.writes,
                              gunzips |-> r.gunzips])
  /\ UNCHANGED <<pc, run, outdirs, discovered, samples, idx, success_count,
                 failed_count, calls, probes, last, summary, prev,
                 cfg, typed, asked, paths>>
  /\ UNCHANGED envVars

NextDecompress == CallDecompress

SpecDecompress == InitDecompress /\ [][NextDecompress]_vars

\* --------------------------------------------------------- get_user_inputs
\* paths the user may name: a data directory, a reference file, an output
\* directory; "nodir" never exists unless the program makes it
UserPaths == {"data", "ref.fa", "out"}
\* those that are regular files when they exist
FilePaths == {"ref.fa"}

\* lines typed at the path prompts and at the "CPU cores [16]: " prompt
PathLines == {"", "  ", "data", " data ", "ref.fa", "out", "nodir"}
CpuLines == {"", "8", " 8 ", "0", "abc", "-4", "sup2"}

\* str.strip()
Strip(line) ==
  CASE line = "  " -> ""
    [] line = " data " -> "data"
    [] line = " 8 " -> "8"
    [] OTHER -> line

\* str.isdigit(): every character is a digit, and there is one; "sup2" is the
\* one-character string SUPERSCRIPT TWO, a digit that int() does not accept
IsDigit(text) == text \in {"8", "0", "sup2"}

\* int(text): the number, or ValueError
ParseInt(text) ==
  CASE text = "8" -> [ok |-> TRUE, value |-> 8]
    [] text = "0" -> [ok |-> TRUE, value |-> 0]
    [] OTHER -> [ok |-> FALSE, value |-> 0]

\* the output directory used for an empty answer
DefaultOutputDir == IF driver = "snippy" THEN "./snippy_results"
                                         ELSE "./spades_assemblies"

\* main() calls get_user_inputs() on a file system where any of the user's
\* paths may exist
InitInputs ==
  /\ driver \in Drivers
  /\ rootExists = FALSE /\ refExists = FALSE /\ outputInRoot = FALSE
  /\ fs = [e \in Entries |-> NoEntry]
  /\ outdirs = {}
  /\ pc = "ask_root" /\ run = 1 /\ prev = NoPrev
  /\ RunInit
  /\ dlog = <<>> /\ cfg = NoCfg /\ typed = NoneTyped /\ asked = NoneAsked
  /\ paths \in SUBSET UserPaths

LinesTyped == asked.root + asked.out + asked.ref + asked.cpu

\* the test of the two "while True" loops: if x and os.path.exists(x): break
PathAccepted_NonEmpty(text) == text # ""
PathAccepted(text) == text # "" /\ text \in paths

\* "Base path for ..." prompt, one turn of its loop
AskRoot ==
  /\ pc = "ask_root" /\ LinesTyped < MaxPrompts
  /\ \E line \in PathLines :
       LET text == Strip(line) IN
       /\ typed' = [typed EXCEPT !.root = text]
       /\ asked' = [asked EXCEPT !.root = @ + 1]
       /\ IF PathAccepted(text)
          THEN cfg' = [cfg EXCEPT !.root = text] /\ pc' = "ask_out"
          ELSE cfg' = cfg /\ pc' = "ask_root"
  /\ UNCHANGED <<paths, dlog, run, fs, outdirs, discovered, samples, idx,
                 r1_file, r2_file, success_count, failed_count, calls, probes,
                 writes, gunzips, last, summary, prev>>
  /\ UNCHANGED envVars

\* "Output directory: " prompt, the default and os.makedirs(exist_ok=True),
\* which raises FileExistsError when the path is a regular file
AskOutput ==
  /\ pc = "ask_out" /\ LinesTyped < MaxPrompts
  /\ \E line \in PathLines :
       LET text == Strip(line)
           output_dir == IF text = "" THEN DefaultOutputDir ELSE text
       IN
       /\ typed' = [typed EXCEPT !.out = text]
       /\ asked' = [asked EXCEPT !.out = @ + 1]
       /\ IF output_dir \in paths /\ output_dir \in FilePaths
          THEN cfg' = cfg /\ paths' = paths /\ pc' = "raised"
          ELSE /\ cfg' = [cfg EXCEPT !.out = output_dir]
               /\ paths' = paths \cup {output_dir}
               /\ pc' = IF driver = "snippy" THEN "ask_ref" ELSE "ask_cpu"
  /\ UNCHANGED <<dlog, run, fs, outdirs, discovered, samples, idx,
                 r1_file, r2_file, success_count, failed_count, calls, probes,
                 writes, gunzips, last, summary, prev>>
  /\ UNCHANGED envVars

\* "Reference genome file: " prompt (Snippy), one turn of its loop
AskRef ==
  /\ pc = "ask_ref" /\ LinesTyped < MaxPrompts
  /\ \E line \in PathLines :
       LET text == Strip(line) IN
       /\ typed' = [typed EXCEPT !.ref = text]
       /\ asked' = [asked EXCEPT !.ref = @ + 1]
       /\ IF PathAccepted(text)
          THEN cfg' = [cfg EXCEPT !.ref = text] /\ pc' = "ask_cpu"
          ELSE cfg' = cfg /\ pc' = "ask_ref"
  /\ UNCHANGED <<paths, dlog, run, fs, outdirs, discovered, samples, idx,
                 r1_file, r2_file, success_count, failed_count, calls, probes,
                 writes, gunzips, last, summary, prev>>
  /\ UNCHANGED envVars

\* cpu_cores = int(cpu_input) if cpu_input.isdigit() else 16
CpuCores(text) ==
  IF IsDigit(text) THEN ParseInt(text)
                   ELSE [ok |-> TRUE, value |-> DefaultCpuCores]

\* "CPU cores [16]: " prompt and the return of the dictionary
AskCpu ==
  /\ pc = "ask_cpu" /\ LinesTyped < MaxPrompts
  /\ \E line \in CpuLines :
       LET text == Strip(line)
           cpu_cores == CpuCores(text)
       IN
       /\ typed' = [typed EXCEPT !.cpu = text]
       /\ asked' = [asked EXCEPT !.cpu = @ + 1]
       /\ IF cpu_cores.ok
          THEN cfg' = [cfg EXCEPT !.cpu = cpu_cores.value] /\ pc' = "returned"
          ELSE cfg' = cfg /\ pc' = "raised"
  /\ UNCHANGED <<paths, dlog, run, fs, outdirs, discovered, samples, idx,
                 r1_file, r2_file, success_count, failed_count, calls, probes,
                 writes, gunzips, last, summary, prev>>
  /\ UNCHANGED envVars

NextInputs ==
  \/ AskRoot
  \/ AskOutput
  \/ AskRef
  \/ AskCpu

SpecInputs == InitInputs /\ [][NextInputs]_vars

\* ============================================================ properties
\* the current sample's input resolution raises
ResolveRaises ==
  IF driver = "snippy" THEN ~get_fastq_files(samples[idx]).ok
                       ELSE ~decompress_fastq(fs, samples[idx]).ok

InLoop == pc \in {"resolve", "invoke", "running"}

\* C1: whatever the per-sample outcomes, success_count + failed_count is the
\* number of samples processed so far while the loop runs, and the number of
\* discovered samples when the summary is emitted.
C1_CountsAddUp ==
  /\ InLoop => success_count + failed_count = idx - 1
  /\ pc = "summary" => success_count + failed_count = Len(samples)
  /\ summary.logged =>
       /\ summary.total = Len(samples)
       /\ summary.success + summary.failed = summary.total

\* a finished run that saw a success, a failed invocation or exception, and
\* an input-resolution exception
C1_Witness ==
  /\ summary.logged /\ summary.success >= 1 /\ summary.failed >= 1
  /\ Len(calls) < Len(samples)

\* entry e is a sample directory whose forward reads are there and whose
\* reverse reads are not: for Snippy <..>R1_trimmed.fastq without
\* <..>R2_trimmed.fastq, for SPAdes <p>_R1_trimmed.fastq.gz without
\* <p>_R2_trimmed.fastq.gz
MissingR2(e) ==
  /\ fs[e].present /\ fs[e].isdir /\ fs[e].illumina
  /\ IF driver = "snippy"
     THEN /\ fs[e].prefixed /\ fs[e].parent \in {strains[k] : k \in DOMAIN strains}
          /\ fs[e].r1fq # "absent" /\ fs[e].r2fq = "absent"
     ELSE fs[e].r1us /\ fs[e].r1gz # "absent" /\ fs[e].r2gz = "absent"

\* the entry a sample of the list stands for
EntryOf(sample) == IF driver = "snippy" THEN sample.item.e ELSE sample.dir

IsListed(e) == \E i \in DOMAIN samples : EntryOf(samples[i]) = e
IsInvoked(e) == \E k \in DOMAIN calls : EntryOf(calls[k].sample) = e

\* C2 as stated: in both drivers a sample whose R2 file is missing is left out
\* of the list get_samples returns and never reaches the tool.
C2_Original ==
  \A e \in Entries : (discovered /\ MissingR2(e)) => ~IsListed(e) /\ ~IsInvoked(e)

\* C2 as the code has it: no tool invocation is made for a sample whose R2
\* file is missing; the SPAdes get_samples leaves it out of the list; the
\* Snippy get_samples does not look at read files, lists it, and its
\* get_fastq_files raises, which the loop counts as that sample's failure.
C2_MissingR2 ==
  \A e \in Entries : MissingR2(e) =>
    /\ ~IsInvoked(e)
    /\ (driver = "spades" /\ discovered) => ~IsListed(e)
    /\ (driver = "snippy" /\ discovered) =>
         /\ IsListed(e)
         /\ \A i \in DOMAIN samples :
              (EntryOf(samples[i]) = e /\ samples[i].item.sfx = 0) =>
                /\ ~get_fastq_files(samples[i]).ok
                /\ (i < idx => failed_count >= 1)

\* a finished Snippy run that listed a sample without R2, counted it as
\* failed and invoked the tool for another sample only
C2_Witness ==
  /\ driver = "snippy" /\ pc = "done"
  /\ \E e \in Entries : MissingR2(e) /\ IsListed(e)
  /\ summary.total = 2 /\ summary.failed >= 1 /\ Len(calls) = 1

\* a precondition of the run does not hold (as validate_inputs finds it)
PreconditionFails ==
  \/ ~rootExists
  \/ driver = "snippy" /\ ~refExists
  \/ probes # <<>> /\ probes[Len(probes)] # "exit0"

\* C4: when the root directory or (Snippy) the reference file is missing, or
\* the version probe finds no binary or exits non-zero, the run aborts before
\* discovery: nothing is enumerated, resolved, decompressed or invoked and no
\* summary is logged.
C4_AbortBeforeDiscovery ==
  /\ (pc \notin {"new", "init"} /\ PreconditionFails) => pc = "aborted"
  /\ pc = "aborted" =>
       /\ ~discovered /\ samples = <<>> /\ idx = 0
       /\ calls = <<>> /\ writes = {} /\ gunzips = {}
       /\ r1_file = NoPath /\ r2_file = NoPath /\ last = NoLast
       /\ ~summary.logged

\* a run aborted because the tool binary is absent, on a tree that holds a
\* sample the tool would have been invoked for
C4_Witness ==
  /\ pc = "aborted" /\ probes = <<"notfound">>
  /\ get_samples # <<>>

\* C5: when validation passes and get_samples returns an empty list, the run
\* ends there: no tool invocation, no decompression, no summary.
C5_NoSamples ==
  /\ (discovered /\ samples = <<>>) => pc = "nosamples"
  /\ pc = "nosamples" =>
       /\ discovered /\ samples = <<>> /\ probes = <<"exit0">>
       /\ calls = <<>> /\ writes = {} /\ gunzips = {} /\ last = NoLast
       /\ ~summary.logged

\* a run that ended for want of samples on a root directory that is not empty
C5_Witness ==
  /\ pc = "nosamples"
  /\ \E e \in Entries : fs[e].present /\ fs[e].isdir

\* C6: an exception raised while resolving one sample's inputs adds exactly
\* one to failed_count, leaves success_count alone and does not end the loop:
\* the loop goes on to the next sample, or to the summary after the last one;
\* a finished run has gone through every sample and logged the summary.
C6_ExceptionIsOneFailure ==
  /\ [][(pc = "resolve" /\ ResolveRaises) =>
          /\ failed_count' = failed_count + 1
          /\ success_count' = success_count
          /\ calls' = calls
          /\ idx' = idx + 1
          /\ pc' = IF idx < Len(samples) THEN "resolve" ELSE "summary"]_vars
  /\ [](pc = "summary" => idx = Len(samples) + 1)
  /\ [](pc = "done" => summary.logged /\ idx = Len(samples) + 1)

\* a finished run whose first sample raised during input resolution and
\* whose second sample was invoked afterwards
C6_Witness ==
  /\ pc = "done" /\ summary.logged /\ Len(samples) = 2
  /\ Len(calls) = 1 /\ calls[1].index = 2
  /\ summary.failed >= 1

\* C7: run_snippy / run_spades returns True exactly on exit status 0; True
\* adds one to success_count only, False (non-zero exit, missing binary) adds
\* one to failed_count only; a run with one discovered sample that reached the
\* tool reports 1/1/0 on exit 0 and 1/0/1 otherwise; contigs.fasta plays no
\* part.
C7_ResultIsExitStatus ==
  /\ [][(pc = "running" /\ pc' # "running") =>
          /\ last'.step = "tool"
          /\ last'.returned = (last'.outcome = "exit0")
          /\ IF last'.outcome = "exit0"
             THEN success_count' = success_count + 1 /\ failed_count' = failed_count
             ELSE success_count' = success_count /\ failed_count' = failed_count + 1]_vars
  /\ []((pc = "done" /\ Len(samples) = 1 /\ Len(calls) = 1) =>
          summary = [logged |-> TRUE, total |-> 1,
                     success |-> IF last.outcome = "exit0" THEN 1 ELSE 0,
                     failed |-> IF last.outcome = "exit0" THEN 0 ELSE 1])

\* a SPAdes run of one sample whose tool exited 0 leaving no contigs.fasta,
\* reported as 1 discovered / 1 succeeded
C7_Witness ==
  /\ driver = "spades" /\ pc = "done" /\ Len(samples) = 1
  /\ last.step = "tool" /\ last.outcome = "exit0" /\ ~last.contigs
  /\ summary.total = 1 /\ summary.success = 1 /\ summary.failed = 0

\* C8: within one run each discovered sample is invoked at most once, exactly
\* once when its inputs resolve, and a failed invocation is counted and left
\* behind at once.
C8_NoRetry ==
  /\ [](\A j, k \in DOMAIN calls :
          /\ j < k => calls[j].index < calls[k].index
          /\ calls[k].index \in DOMAIN samples
          /\ calls[k].sample = samples[calls[k].index]
          /\ calls[k].index <= idx
          /\ (calls[k].returned = "running") = (pc = "running" /\ k = Len(calls)))
  /\ [][(pc = "resolve" /\ ~ResolveRaises) =>
          pc' = "invoke" /\ idx' = idx /\ calls' = calls]_vars
  /\ [][pc = "invoke" =>
          /\ pc' = "running" /\ idx' = idx /\ Len(calls') = Len(calls) + 1
          /\ calls'[Len(calls')].index = idx]_vars
  /\ [][pc = "running" =>
          /\ idx' = idx + 1 /\ pc' \in {"resolve", "summary"}
          /\ Len(calls') = Len(calls)
          /\ success_count' + failed_count' = success_count + failed_count + 1]_vars

\* a finished run that invoked two samples once each, the first invocation
\* having failed
C8_Witness ==
  /\ pc = "done" /\ Len(samples) = 2 /\ Len(calls) = 2
  /\ calls[1].returned = "False" /\ calls[1].index = 1 /\ calls[2].index = 2

\* C9: a second run on the same root directory discovers every sample the
\* previous run discovered and invokes the tool again for every sample the
\* previous run invoked it for, whatever that invocation returned and whatever
\* the previous run left behind (output directories, decompressed .fastq).
C9_RerunInvokesAgain ==
  /\ (run >= 2 /\ discovered) =>
       \A i \in DOMAIN prev.samples : \E j \in DOMAIN samples :
          samples[j] = prev.samples[i]
  /\ (run >= 2 /\ pc \in {"summary", "done"}) =>
       \A k \in DOMAIN prev.calls : \E j \in DOMAIN calls :
          calls[j].sample = prev.calls[k].sample

\* a finished second run that invoked again a sample that had succeeded and a
\* sample that had failed, both output directories being there already
C9_Witness ==
  /\ run = 2 /\ pc = "done" /\ Len(prev.calls) = 2 /\ Len(calls) = 2
  /\ prev.calls[1].returned = "True" /\ prev.calls[2].returned = "False"
  /\ \A k \in DOMAIN prev.calls : prev.calls[k].outdir \in outdirs

\* the two .fastq targets of the sample decompress_fastq was called on
Target(read) == ReadPath(DirectSample, read, FALSE)
Source(read) == ReadPath(DirectSample, read, TRUE)
\* the tree a logged call left: the next call's, or the current one
TreeAfter(k) == IF k < Len(dlog) THEN dlog[k + 1].before ELSE fs

C10_Original ==
  pc = "returned" =>
    /\ PathAccepted(cfg.root)
    /\ driver = "snippy" => PathAccepted(cfg.ref)
    /\ typed.cpu # "" =>
         /\ IsDigit(typed.cpu) /\ ParseInt(typed.cpu).ok
         /\ cfg.cpu = ParseInt(typed.cpu).value

\* C10 as the code has it: the root path and (Snippy) the reference path are
\* asked again until the answer is non-empty and exists, so the returned ones
\* exist; the output directory and the worker count are asked once: an empty
\* output answer becomes the driver's default directory, the directory is
\* created, and a worker count that is not all digits becomes 16.
C10_InputsValidated ==
  /\ pc = "returned" =>
       /\ cfg.root = typed.root /\ cfg.root # "" /\ cfg.root \in paths
       /\ driver = "snippy" =>
            cfg.ref = typed.ref /\ cfg.ref # "" /\ cfg.ref \in paths
       /\ asked.out = 1 /\ asked.cpu = 1
       /\ cfg.out = (IF typed.out = "" THEN DefaultOutputDir ELSE typed.out)
       /\ cfg.out \in paths
       /\ cfg.cpu = (IF IsDigit(typed.cpu) THEN ParseInt(typed.cpu).value
                                            ELSE DefaultCpuCores)
  /\ (pc = "ask_root" /\ asked.root > 0) => (typed.root = "" \/ typed.root \notin paths)
  /\ (pc = "ask_ref" /\ asked.ref > 0) => (typed.ref = "" \/ typed.ref \notin paths)
  /\ pc \in {"ask_out", "ask_ref", "ask_cpu", "returned"} => cfg.root \in paths

\* a Snippy configuration returned after the root prompt was repeated, with
\* an empty output answer and a worker count that is no number
C10_Witness ==
  /\ driver = "snippy" /\ pc = "returned" /\ asked.root = 2
  /\ typed.out = "" /\ cfg.out = "./snippy_results"
  /\ typed.cpu = "abc" /\ cfg.cpu = 16

\* C11: for every sample that reached the invocation step, once run_snippy /
\* run_spades has returned, the sample's output directory exists, whatever
\* subprocess.run did (exit status 0, non-zero exit status, no such binary):
\* the driver made it before it started the tool.
C11_OutDirExistsAfterStep ==
  \A k \in DOMAIN calls :
    calls[k].returned # "running" => calls[k].outdir \in outdirs

\* the invocations that have not returned yet
Running == {k \in DOMAIN calls : calls[k].returned = "running"}

\* C12: samples are processed one at a time in the order get_samples
\* returned them: at most one tool invocation is in progress at any moment;
\* while the inputs of a sample are being resolved no invocation is in
\* progress and every earlier sample has been counted; invocations are made
\* in the order of the list; and the loop only ever moves from a sample to
\* the next one of the list, in the step that counts the sample it leaves.
C12_OneAtATimeInOrder ==
  /\ [](/\ Cardinality(Running) <= 1
        /\ pc \in {"resolve", "invoke"} =>
             /\ Running = {}
             /\ success_count + failed_count = idx - 1
        /\ pc = "running" =>
             /\ Running = {Len(calls)} /\ calls[Len(calls)].index = idx
             /\ success_count + failed_count = idx - 1
        /\ \A j, k \in DOMAIN calls :
             /\ calls[k].sample = samples[calls[k].index]
             /\ j < k => calls[j].index < calls[k].index)
  /\ [][(InLoop /\ idx' # idx) =>
          /\ idx' = idx + 1
          /\ success_count' + failed_count' = success_count + failed_count + 1
          /\ Running' = {}]_vars
  /\ [][(InLoop /\ Len(calls') > Len(calls)) =>
          /\ Running = {} /\ Running' = {Len(calls')}
          /\ calls'[Len(calls')].index = idx /\ idx' = idx]_vars

\* the tool is running for the second of two samples, the first invocation
\* having returned and been counted
C12_Witness ==
  /\ pc = "running" /\ idx = 2 /\ Len(samples) = 2 /\ Len(calls) = 2
  /\ calls[1].returned # "running" /\ calls[1].index = 1
  /\ success_count + failed_count = 1

\* C13: within one run, two distinct discovered samples that reach the
\* invocation step are given distinct output directories by run_snippy /
\* run_spades, so no two invocations of a run write into the same directory.
C13_DistinctOutDirs ==
  \A j, k \in DOMAIN calls :
    calls[j].sample # calls[k].sample => calls[j].outdir # calls[k].outdir

====
